---- MODULE Spec2Model ----
(***************************************************************************)
(* catrix.c: a terminal "matrix rain".  The model follows the main loop    *)
(* of main(): poll_resize, apply_resize_if_needed, build_cur_grid,         *)
(* render_diff, simulate_matrix, sleep_until, together with the signal     *)
(* handlers, the allocator (which may fail) and the terminal (whose size   *)
(* may change and whose size query may report zero).                       *)
(*                                                                         *)
(* Representation.                                                         *)
(*  - float fields (cycle, speed) are fixed-point integers in units of     *)
(*    1/Scale row; the comparisons of build_cur_grid and simulate_matrix   *)
(*    are the source's comparisons multiplied through by Scale.            *)
(*  - a char array is a sequence of glyphs; the NULL pointer is <<>>.      *)
(*  - a grid buffer is a sequence of cells of length grid_cap_cells,       *)
(*    row-major in its first COLS*ROWS cells; prev_live / cur_live say     *)
(*    whether the global pointer still points to allocated memory.         *)
(*  - rand() is a nondeterministic choice.                                 *)
(*  - the 80x24 fallback of get_term_size_now is scaled to                 *)
(*    FallbackCols x FallbackRows, the terminal to at most                 *)
(*    MaxPhysCols x MaxPhysRows.                                           *)
(***************************************************************************)
EXTENDS Integers, Sequences, FiniteSets, TLC

\* ---------------------------------------------------------------- bounds
\* largest physical terminal the environment reports
MaxPhysCols == 3
MaxPhysRows == 1
\* the fallback size of get_term_size_now (80 x 24 in the source), scaled
FallbackCols == 2
FallbackRows == 1
\* number of distinct rain characters (34 in CHARS)
NumGlyphs == 2
\* how many allocations the environment may fail in one run
MaxFails == 1
\* widest logical grid handed to render_diff on its own (SpecRender)
RenderCols == 3
\* the largest grid of the column specification
SimRows == 6
SimCols == 4
\* the largest grid a terminal of one cell is grown to
GrownCols == 100
GrownRows == 21
\* fixed-point denominator of the float fields cycle and speed
Scale == 4

Glyphs == 1..NumGlyphs
\* speed = ((rand()/RAND_MAX) + 0.1) / 2 lies in [0.05, 0.55]; in units of
\* 1/Scale row the model draws it from the values below (1/Scale <= 0.55)
Speeds == {1}

Space == 0
PoisonCh == 255
PoisonStyle == 255

VARIABLES
  termCols, termRows,     \* what ioctl(TIOCGWINSZ) reports now
  PHYS_COLS, PHYS_ROWS,   \* physical terminal size as last queried
  COLS, ROWS,             \* logical grid
  matrix,                 \* the column set: sequence of blue_pill records
  resize_pending, exit_pending,
  prev_grid, cur_grid, prev_live, cur_live, grid_cap_cells,
  out_cap,
  force_full,             \* main's local
  pc,                     \* position in main's loop
  screen, sgr,            \* terminal contents and active SGR attribute
  out,                    \* what the last render_diff emitted
  fails,                  \* allocations failed so far
  now,                    \* the monotonic clock, in clock units
  next,                   \* main's local: the next tick boundary
  frame_start,            \* the clock when this iteration began
  overrun                 \* by how much line 410 found the boundary passed

vars == <<termCols, termRows, PHYS_COLS, PHYS_ROWS, COLS, ROWS, matrix,
          resize_pending, exit_pending, prev_grid, cur_grid, prev_live,
          cur_live, grid_cap_cells, out_cap, force_full, pc, screen, sgr,
          out, fails, now, next, frame_start, overrun>>

Max(a, b) == IF a >= b THEN a ELSE b
Min(a, b) == IF a <= b THEN a ELSE b

\* ------------------------------------------------------------ cells
Cell(ch, style) == [ch |-> ch, style |-> style]
BlankCell == Cell(Space, 0)
\* memset(prev_grid, 0xFF, ...)
PoisonCell == Cell(PoisonCh, PoisonStyle)
\* memory returned by realloc beyond the old contents; never read before
\* build_cur_grid writes it
UninitCell == Cell(PoisonCh, 254)

Fill(n, x) == [i \in 1..n |-> x]

\* ------------------------------------------------------------ terminal size
\* the sizes the terminal may report: every size up to the maximum, a report
\* of zero columns and a report of zero rows
TermSizes ==
  ((1..MaxPhysCols) \X (1..MaxPhysRows)) \cup {<<0, 1>>, <<1, 0>>}

\* tty_winsize: fails when the reported size has a zero
TtyWinsizeOk == termCols # 0 /\ termRows # 0

Logical(physCols) == (physCols + 1) \div 2

\* get_term_size_now: <<PHYS_COLS, PHYS_ROWS, *out_cols, *out_rows>>
GetTermSizeNow ==
  LET pcs == IF TtyWinsizeOk THEN termCols ELSE FallbackCols
      prs == IF TtyWinsizeOk THEN termRows ELSE FallbackRows
  IN  <<pcs, prs, Logical(pcs), prs>>

\* ------------------------------------------------------------ columns
\* pick_lifespan_for_column: (int)(rows * 0.30f), (int)(rows * 0.90f)
MinLen(rows) == Max(1, (rows * 30) \div 100)
MaxLen(rows) == Max(MinLen(rows), (rows * 90) \div 100)
PickLifespan(rows) == MinLen(rows)..MaxLen(rows)

\* one freshly seeded column (alloc_matrix body, reseed in simulate_matrix)
FreshColumns(rows) ==
  [rsi : [1..rows -> Glyphs], speed : Speeds, lifespan : PickLifespan(rows),
   cycle : {0}, bold : BOOLEAN]

\* alloc_matrix: the column sets a successful call may return
AllocMatrix(cols, rows) == [1..cols -> FreshColumns(rows)]

\* ------------------------------------------------------------ build_cur_grid
\* mutant: the head band is the row above the one holding the head position
StyleOfHeadAbove(r, col) ==
  LET cyc  == col.cycle
      tail == cyc - col.lifespan * Scale
  IN  IF (r - 3) * Scale > tail /\ r * Scale < cyc - 2 * Scale
        THEN (IF col.bold THEN 3 ELSE 2)
      ELSE IF (r - 1) * Scale > tail /\ r * Scale < cyc - 2 * Scale THEN 2
      ELSE IF r * Scale > tail /\ r * Scale < cyc - 2 * Scale THEN 1
      ELSE IF cyc > (r + 1) * Scale /\ cyc < (r + 2) * Scale THEN 5
      ELSE IF cyc > r * Scale /\ cyc < (r + 1) * Scale THEN 4
      ELSE 0

\* the band of row r in a column (lines 255-268); cycle is in 1/Scale rows
StyleOf(r, col) ==
  LET cyc  == col.cycle
      tail == cyc - col.lifespan * Scale      \* cycle - lifespan
  IN  IF (r - 3) * Scale > tail /\ r * Scale < cyc - 2 * Scale
        THEN (IF col.bold THEN 3 ELSE 2)
      ELSE IF (r - 1) * Scale > tail /\ r * Scale < cyc - 2 * Scale THEN 2
      ELSE IF r * Scale > tail /\ r * Scale < cyc - 2 * Scale THEN 1
      ELSE IF cyc > (r + 1) * Scale /\ cyc < (r + 2) * Scale THEN 4
      ELSE IF cyc > r * Scale /\ cyc < (r + 1) * Scale THEN 5
      ELSE 0

\* mutant: a styled cell takes the glyph of the column's first row
BuiltCellFirstRow(m, r, c) ==
  LET style == StyleOf(r, m[c + 1])
  IN  IF style = 0 THEN BlankCell ELSE Cell(m[c + 1].rsi[1], style)

\* the cell build_cur_grid stores for (r, c) (lines 270-275); a styled cell
\* reads rsi[r]
BuiltCell(m, r, c) ==
  LET style == StyleOf(r, m[c + 1])
  IN  IF style = 0 THEN BlankCell ELSE Cell(m[c + 1].rsi[r + 1], style)

\* whether build_cur_grid dereferences a NULL rsi
BuildReadsNull(m, cols, rows) ==
  \E r \in 0..rows - 1, c \in 0..cols - 1 :
     StyleOf(r, m[c + 1]) # 0 /\ m[c + 1].rsi = <<>>

\* build_cur_grid: the buffer after the call; cells beyond cols*rows keep
\* what they held
BuildCurGrid(m, cols, rows, buf) ==
  [i \in 1..Max(Len(buf), cols * rows) |->
     IF i <= cols * rows
       THEN BuiltCell(m, (i - 1) \div cols, (i - 1) % cols)
       ELSE buf[i]]

\* ------------------------------------------------------------ render_diff
At(grid, cols, r, c) == grid[r * cols + c + 1]

\* mutant: the glyph comparison is left out
UnchangedStyleOnly(cur, prv, ff) == (~ff) /\ cur.style = prv.style

\* line 295: the cell is skipped
Unchanged(cur, prv, ff) ==
  (~ff) /\ cur.style = prv.style /\ (cur.style = 0 \/ cur.ch = prv.ch)

\* mutant: the run is extended without asking whether the cell changed
NeedAlways(cc, pp, ff) == TRUE

\* mutant: a glyph change alone does not extend the run
NeedStyleOnly(cc, pp, ff) == ff \/ cc.style # pp.style

\* line 307: the cell extends a run
Need(cc, pp, ff) ==
  ff \/ cc.style # pp.style \/ (cc.style # 0 /\ cc.ch # pp.ch)

\* lines 303-312: the end of the run that starts before `end`
RECURSIVE RunEnd(_, _, _, _, _, _, _)
RunEnd(cur, prv, cols, ff, r, style, end) ==
  IF end < cols
     /\ Need(At(cur, cols, r, end), At(prv, cols, r, end), ff)
     /\ At(cur, cols, r, end).style = style
    THEN RunEnd(cur, prv, cols, ff, r, style, end + 1)
    ELSE end

\* lines 291-338: the runs of row r from column c on
RECURSIVE RowRuns(_, _, _, _, _, _)
RowRuns(cur, prv, cols, ff, r, c) ==
  IF c >= cols THEN <<>>
  ELSE IF Unchanged(At(cur, cols, r, c), At(prv, cols, r, c), ff)
    THEN RowRuns(cur, prv, cols, ff, r, c + 1)
  ELSE LET style == At(cur, cols, r, c).style
           end   == RunEnd(cur, prv, cols, ff, r, style, c + 1)
       IN  <<[row |-> r, start |-> c, end |-> end, style |-> style]>>
             \o RowRuns(cur, prv, cols, ff, r, end)

\* lines 289-339: the runs of rows r.. in emission order
RECURSIVE RunsFrom(_, _, _, _, _, _)
RunsFrom(cur, prv, cols, rows, ff, r) ==
  IF r >= rows THEN <<>>
  ELSE RowRuns(cur, prv, cols, ff, r, 0)
         \o RunsFrom(cur, prv, cols, rows, ff, r + 1)

RenderRuns(cur, prv, cols, rows, ff) == RunsFrom(cur, prv, cols, rows, ff, 0)

\* mutant: the copy stops one cell short
CommitPrevShort(cur, prv, cols, rows) ==
  [i \in 1..Max(Len(prv), cols * rows) |->
     IF i <= cols * rows - 1 THEN cur[i] ELSE prv[i]]

\* line 346: memcpy(prev_grid, cur_grid, COLS*ROWS cells)
CommitPrev(cur, prv, cols, rows) ==
  [i \in 1..Max(Len(prv), cols * rows) |->
     IF i <= cols * rows THEN cur[i] ELSE prv[i]]

\* ------------------------------------------------------------ the terminal
\* The screen is the one the emitted sequences address: a character lands at
\* the cursor, under the attribute selected last, and the cursor moves right.
ScrRows == Max(MaxPhysRows, FallbackRows)
ScrCols == 2 * Max(Logical(Max(MaxPhysCols, FallbackCols)), RenderCols)
ScrCell(ch, attr) == [ch |-> ch, attr |-> attr]
\* what the terminal shows before the program's first output
JunkCell == ScrCell(PoisonCh, 0)
\* ESC[2J: every position erased
ClearedScreen == [r \in 1..ScrRows |-> [c \in 1..ScrCols |-> ScrCell(Space, 0)]]

\* buf_putc at the cursor
Put(scr, row1, col1, ch, attr) ==
  IF row1 \in 1..ScrRows /\ col1 \in 1..ScrCols
    THEN [scr EXCEPT ![row1][col1] = ScrCell(ch, attr)]
    ELSE scr

\* lines 321-335 for the cell x of a run, the cursor being at col1:
\* <<screen, cursor column>>
EmitCell(scr, cur, cols, physCols, run, attr, x, col1) ==
  LET ch    == IF run.style = 0 THEN Space ELSE At(cur, cols, run.row, x).ch
      s1    == Put(scr, run.row + 1, col1, ch, attr)
      trail == 2 * x + 2 <= physCols
  IN  <<IF trail THEN Put(s1, run.row + 1, col1 + 1, Space, attr) ELSE s1,
        col1 + (IF trail THEN 2 ELSE 1)>>

\* lines 321-335: the cells lo..hi-1 of a run in order, the cursor being at
\* col1: <<screen, cursor column>>.  The loop is split in halves, the second
\* half starting where the first one ends.
RECURSIVE EmitCells(_, _, _, _, _, _, _, _, _)
EmitCells(scr, cur, cols, physCols, run, attr, lo, hi, col1) ==
  IF hi <= lo THEN <<scr, col1>>
  ELSE IF hi = lo + 1
    THEN EmitCell(scr, cur, cols, physCols, run, attr, lo, col1)
  ELSE LET mid == (lo + hi) \div 2
       IN  CHOOSE st \in
             {EmitCells(left[1], cur, cols, physCols, run, attr, mid, hi,
                        left[2]) :
                left \in {EmitCells(scr, cur, cols, physCols, run, attr, lo,
                                    mid, col1)}} : TRUE

\* lines 314-335 for one run: <<screen, active attribute>>
EmitRun(scr, sg, cur, cols, physCols, run) ==
  LET attr == IF run.style # 0 THEN run.style ELSE sg
  IN  <<EmitCells(scr, cur, cols, physCols, run, attr, run.start, run.end,
                  2 * run.start + 1)[1],
        attr>>

\* lines 314-335 for the runs lo..hi in order: <<screen, active attribute>>,
\* split in halves like EmitCells
RECURSIVE EmitRunsIn(_, _, _, _, _, _, _, _)
EmitRunsIn(scr, sg, cur, cols, physCols, runs, lo, hi) ==
  IF hi < lo THEN <<scr, sg>>
  ELSE IF hi = lo THEN EmitRun(scr, sg, cur, cols, physCols, runs[lo])
  ELSE LET mid == (lo + hi) \div 2
       IN  CHOOSE st \in
             {EmitRunsIn(left[1], left[2], cur, cols, physCols, runs,
                         mid + 1, hi) :
                left \in {EmitRunsIn(scr, sg, cur, cols, physCols, runs, lo,
                                     mid)}} : TRUE

EmitRuns(scr, sg, cur, cols, physCols, runs) ==
  EmitRunsIn(scr, sg, cur, cols, physCols, runs, 1, Len(runs))

\* mutant: a column is reseeded as soon as its head has left the grid
ReseedDueAtBottom(cyc, lifespan, rows) == cyc > rows * Scale

\* ------------------------------------------------------------ simulate_matrix
\* line 358: the head has left the grid and the trail with it
ReseedDue(cyc, lifespan, rows) == cyc > (rows + lifespan) * Scale

\* lines 352-367 for one column: the columns the tick may leave, malloc
\* succeeding; a NULL rsi is not written here (see SimulateCrash)
SimColumnOk(col, rows) ==
  LET cyc == col.cycle + col.speed
  IN  IF ReseedDue(cyc, col.lifespan, rows)
        THEN FreshColumns(rows)
        ELSE {[col EXCEPT !.rsi = g, !.cycle = cyc] :
                g \in (IF col.rsi = <<>> THEN {<<>>} ELSE [1..rows -> Glyphs])}

\* lines 359-361: malloc fails, the column keeps a NULL rsi and its cycle
SimColumnFail(col, rows) ==
  LET cyc == col.cycle + col.speed
  IN  IF ReseedDue(cyc, col.lifespan, rows)
        THEN {[col EXCEPT !.rsi = <<>>, !.cycle = cyc]}
        ELSE {}

\* ------------------------------------------------------------ ensure_buffers
\* line 164
OutNeed(cells) == cells * 64 + 4096

\* cur_grid after a successful realloc: old contents, then fresh memory
GrowCur(buf, cells) ==
  [i \in 1..cells |-> IF i <= Len(buf) THEN buf[i] ELSE UninitCell]

\* ------------------------------------------------------------ initial state
\* the tick period FRAME_NS (line 17), in clock units
FRAME_NS == 3
\* lines 391-392: last = ns_now(); next = last + FRAME_NS
ClockStart ==
  /\ now = 0
  /\ next = FRAME_NS
  /\ frame_start = 0
  /\ overrun = 0

\* after init_world() succeeded and the cursor was hidden (lines 379-393)
Init ==
  /\ \E sz \in TermSizes : termCols = sz[1] /\ termRows = sz[2]
  /\ PHYS_COLS = GetTermSizeNow[1]
  /\ PHYS_ROWS = GetTermSizeNow[2]
  /\ COLS = GetTermSizeNow[3]
  /\ ROWS = GetTermSizeNow[4]
  /\ matrix \in AllocMatrix(COLS, ROWS)
  /\ resize_pending = FALSE
  /\ exit_pending = FALSE
  /\ prev_grid = Fill(COLS * ROWS, PoisonCell)
  /\ cur_grid = Fill(COLS * ROWS, UninitCell)
  /\ prev_live = TRUE
  /\ cur_live = TRUE
  /\ grid_cap_cells = COLS * ROWS
  /\ out_cap = OutNeed(COLS * ROWS)
  /\ force_full = TRUE
  /\ pc = "top"
  /\ screen = [r \in 1..ScrRows |-> [c \in 1..ScrCols |-> JunkCell]]
  /\ sgr = 0
  /\ out = [clear |-> FALSE, runs |-> <<>>]
  /\ fails = 0
  /\ ClockStart

\* line 401, reached from line 400
AfterResizeStep(cols, rows) == IF cols <= 0 \/ rows <= 0 THEN "top" ELSE "build"

Running == pc \notin {"done", "crashed"}

envVars  == <<termCols, termRows>>
physVars == <<PHYS_COLS, PHYS_ROWS>>
gridVars == <<prev_grid, cur_grid, prev_live, cur_live, grid_cap_cells>>
termVars == <<screen, sgr, out>>
clockVars == <<now, next, frame_start, overrun>>

\* ------------------------------------------------------------ environment
\* the terminal is resized; the program sees its size only through ioctl,
\* in poll_resize and get_term_size_now, so the change is taken just before
TermResize ==
  /\ pc \in {"poll", "query"}
  /\ \E sz \in TermSizes :
       /\ sz # <<termCols, termRows>>
       /\ termCols' = sz[1]
       /\ termRows' = sz[2]
  /\ UNCHANGED <<physVars, COLS, ROWS, matrix, resize_pending, exit_pending,
                 gridVars, out_cap, force_full, pc, termVars, fails,
                 clockVars>>

\* mutant: the handler also invalidates prev_grid to force a repaint
handle_winchPoisons ==
  /\ Running
  /\ ~resize_pending
  /\ resize_pending' = TRUE
  /\ prev_grid' = Fill(Len(prev_grid), PoisonCell)
  /\ UNCHANGED <<envVars, physVars, COLS, ROWS, matrix, exit_pending,
                 cur_grid, prev_live, cur_live, grid_cap_cells, out_cap,
                 force_full, pc, termVars, fails, clockVars>>

\* handle_winch (line 127)
handle_winch ==
  /\ Running
  /\ ~resize_pending
  /\ resize_pending' = TRUE
  /\ UNCHANGED <<envVars, physVars, COLS, ROWS, matrix, exit_pending,
                 gridVars, out_cap, force_full, pc, termVars, fails,
                 clockVars>>

\* handle_exit_signal (line 128)
handle_exit_signal ==
  /\ Running
  /\ ~exit_pending
  /\ exit_pending' = TRUE
  /\ UNCHANGED <<envVars, physVars, COLS, ROWS, matrix, resize_pending,
                 gridVars, out_cap, force_full, pc, termVars, fails,
                 clockVars>>

\* ------------------------------------------------------------ main loop
\* line 396, and cleanup() (lines 113-124) when the loop is left
ExitCheck ==
  /\ pc = "top"
  /\ IF exit_pending
       THEN /\ pc' = "done"
            /\ prev_grid' = <<>>
            /\ cur_grid' = <<>>
            /\ prev_live' = FALSE
            /\ cur_live' = FALSE
            /\ UNCHANGED grid_cap_cells
       ELSE /\ pc' = "poll"
            /\ UNCHANGED gridVars
  /\ UNCHANGED <<envVars, physVars, COLS, ROWS, matrix, resize_pending,
                 exit_pending, out_cap, force_full, termVars, fails,
                 clockVars>>

\* mutant: only the row count is compared
poll_resizeRowsOnly ==
  /\ pc = "poll"
  /\ resize_pending' =
       IF TtyWinsizeOk /\ termRows # ROWS THEN TRUE ELSE resize_pending
  /\ pc' = "check"
  /\ UNCHANGED <<envVars, physVars, COLS, ROWS, matrix, exit_pending,
                 gridVars, out_cap, force_full, termVars, fails, clockVars>>

\* poll_resize (lines 200-208)
poll_resize ==
  /\ pc = "poll"
  /\ resize_pending' =
       IF TtyWinsizeOk /\ (Logical(termCols) # COLS \/ termRows # ROWS)
         THEN TRUE ELSE resize_pending
  /\ pc' = "check"
  /\ UNCHANGED <<envVars, physVars, COLS, ROWS, matrix, exit_pending,
                 gridVars, out_cap, force_full, termVars, fails, clockVars>>

\* line 400 (and line 175)
CheckPending ==
  /\ pc = "check"
  /\ pc' = IF resize_pending THEN "query" ELSE AfterResizeStep(COLS, ROWS)
  /\ UNCHANGED <<envVars, physVars, COLS, ROWS, matrix, resize_pending,
                 exit_pending, gridVars, out_cap, force_full, termVars, fails,
                 clockVars>>

\* line 178: get_term_size_now stores the physical size; new_cols and
\* new_rows are Logical(PHYS_COLS) and PHYS_ROWS from here on
QuerySize ==
  /\ pc = "query"
  /\ PHYS_COLS' = GetTermSizeNow[1]
  /\ PHYS_ROWS' = GetTermSizeNow[2]
  /\ pc' = "commit"
  /\ UNCHANGED <<envVars, COLS, ROWS, matrix, resize_pending, exit_pending,
                 gridVars, out_cap, force_full, termVars, fails, clockVars>>

new_cols == Logical(PHYS_COLS)
new_rows == PHYS_ROWS
\* line 179
InvalidSize == new_cols <= 0 \/ new_rows <= 0

\* lines 179 and 182: the attempt is given up before anything is replaced
ResizeAbort ==
  /\ pc = "commit"
  /\ IF InvalidSize
       THEN fails' = fails
       ELSE fails < MaxFails /\ fails' = fails + 1
  /\ resize_pending' = FALSE
  /\ pc' = AfterResizeStep(COLS, ROWS)
  /\ UNCHANGED <<envVars, physVars, COLS, ROWS, matrix, exit_pending,
                 gridVars, out_cap, force_full, termVars, clockVars>>

\* ensure_buffers, line 153
MustGrow(cells) == cells > grid_cap_cells

\* lines 184-190: the new column set and dimensions are installed
InstallMatrix(nm) ==
  /\ matrix' = nm
  /\ COLS' = new_cols
  /\ ROWS' = new_rows

\* mutant: the grown prev_grid keeps its contents instead of being poisoned
GridsEnsuredNoPoison(cells) ==
  IF MustGrow(cells)
    THEN /\ prev_grid' = GrowCur(prev_grid, cells)
         /\ cur_grid' = GrowCur(cur_grid, cells)
         /\ prev_live' = TRUE
         /\ cur_live' = TRUE
         /\ grid_cap_cells' = cells
    ELSE UNCHANGED gridVars

\* ensure_buffers lines 153-162, both reallocs succeeding or none needed
GridsEnsured(cells) ==
  IF MustGrow(cells)
    THEN /\ prev_grid' = Fill(cells, PoisonCell)
         /\ cur_grid' = GrowCur(cur_grid, cells)
         /\ prev_live' = TRUE
         /\ cur_live' = TRUE
         /\ grid_cap_cells' = cells
    ELSE UNCHANGED gridVars

\* lines 181-196, every allocation succeeding
ResizeOk ==
  /\ pc = "commit"
  /\ ~InvalidSize
  /\ \E nm \in AllocMatrix(new_cols, new_rows) : InstallMatrix(nm)
  /\ GridsEnsured(new_cols * new_rows)
  /\ out_cap' = Max(out_cap, OutNeed(new_cols * new_rows))
  /\ force_full' = TRUE
  /\ resize_pending' = FALSE
  /\ pc' = AfterResizeStep(new_cols, new_rows)
  /\ UNCHANGED <<envVars, physVars, exit_pending, termVars, fails, clockVars>>

\* line 156: a grid realloc fails after the column set was replaced; what
\* realloc returned is freed, so a pointer whose realloc succeeded dangles
ResizeGridFail ==
  /\ pc = "commit"
  /\ ~InvalidSize
  /\ MustGrow(new_cols * new_rows)
  /\ \E pgok \in BOOLEAN, cgok \in BOOLEAN :
       /\ ~(pgok /\ cgok)
       /\ fails' = fails + (IF pgok THEN 0 ELSE 1) + (IF cgok THEN 0 ELSE 1)
       /\ fails' <= MaxFails
       /\ prev_live' = (prev_live /\ ~pgok)
       /\ cur_live' = (cur_live /\ ~cgok)
  /\ \E nm \in AllocMatrix(new_cols, new_rows) : InstallMatrix(nm)
  /\ resize_pending' = FALSE
  /\ pc' = AfterResizeStep(new_cols, new_rows)
  /\ UNCHANGED <<envVars, physVars, exit_pending, prev_grid, cur_grid,
                 grid_cap_cells, out_cap, force_full, termVars, clockVars>>

\* line 167: the grids were ensured, the output buffer's realloc fails
ResizeOutFail ==
  /\ pc = "commit"
  /\ ~InvalidSize
  /\ OutNeed(new_cols * new_rows) > out_cap
  /\ fails < MaxFails
  /\ fails' = fails + 1
  /\ \E nm \in AllocMatrix(new_cols, new_rows) : InstallMatrix(nm)
  /\ GridsEnsured(new_cols * new_rows)
  /\ resize_pending' = FALSE
  /\ pc' = AfterResizeStep(new_cols, new_rows)
  /\ UNCHANGED <<envVars, physVars, exit_pending, out_cap, force_full,
                 termVars, clockVars>>

\* build_cur_grid would write through a released or too small cur_grid
BuildUnsafe == ~cur_live \/ COLS * ROWS > grid_cap_cells
\* render_diff would read or write a released or too small grid
RenderUnsafe == ~cur_live \/ ~prev_live \/ COLS * ROWS > grid_cap_cells
\* simulate_matrix would write rsi[r] of a column whose rsi is NULL
SimulateUnsafe == \E c \in 1..COLS : matrix[c].rsi = <<>>
\* ensure_buffers would realloc a released pointer
ReallocUnsafe == MustGrow(new_cols * new_rows) /\ (~cur_live \/ ~prev_live)

\* what a read past the end of a buffer may find
Garbage == {PoisonCell, BlankCell}
\* a buffer as read up to `cells` cells, g standing past its end
Beyond(buf, cells, g) ==
  [i \in 1..Max(Len(buf), cells) |-> IF i <= Len(buf) THEN buf[i] ELSE g]

\* line 403; on a released or too small buffer the writes are undefined:
\* here they land as if the memory were there, in UBCrash the process dies
build_cur_grid ==
  /\ pc = "build"
  /\ ~BuildReadsNull(matrix, COLS, ROWS)
  /\ cur_grid' = BuildCurGrid(matrix, COLS, ROWS, cur_grid)
  /\ pc' = "render"
  /\ UNCHANGED <<envVars, physVars, COLS, ROWS, matrix, resize_pending,
                 exit_pending, prev_grid, prev_live, cur_live, grid_cap_cells,
                 out_cap, force_full, screen, sgr, out, fails, clockVars>>

\* lines 404-405: render_diff(force_full); force_full = 0
render_diff ==
  /\ pc = "render"
  /\ \E g \in (IF Len(prev_grid) < COLS * ROWS THEN Garbage ELSE {PoisonCell}) :
       LET prv  == Beyond(prev_grid, COLS * ROWS, g)
           runs == RenderRuns(cur_grid, prv, COLS, ROWS, force_full)
           scr0 == IF force_full THEN ClearedScreen ELSE screen
           res  == EmitRuns(scr0, sgr, cur_grid, COLS, PHYS_COLS, runs)
       IN  /\ out' = [clear |-> force_full, runs |-> runs]
           /\ screen' = res[1]
           /\ sgr' = res[2]
  /\ prev_grid' = CommitPrev(cur_grid, prev_grid, COLS, ROWS)
  /\ force_full' = FALSE
  /\ pc' = "simulate"
  /\ UNCHANGED <<envVars, physVars, COLS, ROWS, matrix, resize_pending,
                 exit_pending, cur_grid, prev_live, cur_live, grid_cap_cells,
                 out_cap, fails, clockVars>>

\* the column sets one tick may leave, the columns of `failing` being those
\* whose reseed malloc fails
RECURSIVE SimMatrix(_, _, _, _)
SimMatrix(m, rows, failing, k) ==
  IF k = 0 THEN {<<>>}
  ELSE {Append(p, x) :
          p \in SimMatrix(m, rows, failing, k - 1),
          x \in (IF k \in failing THEN SimColumnFail(m[k], rows)
                                  ELSE SimColumnOk(m[k], rows))}

\* line 407, every reseed malloc succeeding
simulate_matrix ==
  /\ pc = "simulate"
  /\ matrix' \in SimMatrix(matrix, ROWS, {}, COLS)
  /\ pc' = "sleep"
  /\ UNCHANGED <<envVars, physVars, COLS, ROWS, resize_pending, exit_pending,
                 gridVars, out_cap, force_full, termVars, fails, clockVars>>

\* line 407, the reseed malloc of some columns failing (line 361)
SimulateReseedFail ==
  /\ pc = "simulate"
  /\ \E failing \in SUBSET (1..COLS) \ {{}} :
       /\ fails + Cardinality(failing) <= MaxFails
       /\ fails' = fails + Cardinality(failing)
       /\ matrix' \in SimMatrix(matrix, ROWS, failing, COLS)
  /\ pc' = "sleep"
  /\ UNCHANGED <<envVars, physVars, COLS, ROWS, resize_pending, exit_pending,
                 gridVars, out_cap, force_full, termVars, clockVars>>

\* lines 409-411, the clock left aside (it is followed in SpecClock)
sleep_until ==
  /\ pc = "sleep"
  /\ pc' = "top"
  /\ UNCHANGED <<envVars, physVars, COLS, ROWS, matrix, resize_pending,
                 exit_pending, gridVars, out_cap, force_full, termVars, fails,
                 clockVars>>

\* an access to released, too small or NULL memory kills the process
UBCrash ==
  /\ \/ pc = "build" /\ (BuildUnsafe \/ BuildReadsNull(matrix, COLS, ROWS))
     \/ pc = "render" /\ RenderUnsafe
     \/ pc = "simulate" /\ SimulateUnsafe
     \/ pc = "commit" /\ ~InvalidSize /\ ReallocUnsafe
  /\ pc' = "crashed"
  /\ UNCHANGED <<envVars, physVars, COLS, ROWS, matrix, resize_pending,
                 exit_pending, gridVars, out_cap, force_full, termVars, fails,
                 clockVars>>

Next ==
  \/ TermResize
  \/ handle_winch
  \/ handle_exit_signal
  \/ ExitCheck
  \/ poll_resize
  \/ CheckPending
  \/ QuerySize
  \/ ResizeAbort
  \/ ResizeOk
  \/ ResizeGridFail
  \/ ResizeOutFail
  \/ build_cur_grid
  \/ render_diff
  \/ simulate_matrix
  \/ SimulateReseedFail
  \/ sleep_until
  \/ UBCrash

Spec == Init /\ [][Next]_vars

\* ------------------------------------------------------------ fairness
\* the steps of the program itself; the process keeps being scheduled
ProgramStep ==
  \/ ExitCheck \/ poll_resize \/ CheckPending \/ QuerySize \/ ResizeOk
  \/ build_cur_grid \/ render_diff \/ simulate_matrix \/ sleep_until

\* the program with every allocation succeeding and no exit requested,
\* on a terminal that may be resized and may or may not deliver SIGWINCH
NextLive == TermResize \/ handle_winch \/ ProgramStep

SpecLive == Init /\ [][NextLive]_vars /\ WF_vars(ProgramStep)

\* ------------------------------------------------------------ render twice
\* a driver that, render_diff having returned, calls build_cur_grid and
\* render_diff once more before simulate_matrix (one step)
Rerun ==
  /\ pc = "simulate"
  /\ LET cur2 == BuildCurGrid(matrix, COLS, ROWS, cur_grid)
         runs == RenderRuns(cur2, prev_grid, COLS, ROWS, force_full)
         scr0 == IF force_full THEN ClearedScreen ELSE screen
         res  == EmitRuns(scr0, sgr, cur2, COLS, PHYS_COLS, runs)
     IN  /\ cur_grid' = cur2
         /\ out' = [clear |-> force_full, runs |-> runs]
         /\ screen' = res[1]
         /\ sgr' = res[2]
         /\ prev_grid' = CommitPrev(cur2, prev_grid, COLS, ROWS)
  /\ UNCHANGED <<envVars, physVars, COLS, ROWS, matrix, resize_pending,
                 exit_pending, prev_live, cur_live, grid_cap_cells, out_cap,
                 force_full, pc, fails, clockVars>>

\* the program on a terminal that keeps its size, with no signal and no
\* failing allocation, driven through Rerun as well
NextRerun ==
  \/ ExitCheck \/ poll_resize \/ CheckPending
  \/ build_cur_grid \/ render_diff \/ simulate_matrix \/ sleep_until
  \/ Rerun

SpecRerun == Init /\ [][NextRerun]_vars

\* ------------------------------------------------------------ render alone
\* render_diff applied once to a current grid built from a column set and
\* to any previous buffer: one row, up to RenderCols logical columns
RenderColumns ==
  [rsi : [1..1 -> Glyphs], speed : Speeds, lifespan : PickLifespan(1),
   cycle : {0, 1, Scale + 1}, bold : {FALSE}]

\* what a cell of prev_grid may hold: the poison, or a cell built earlier
PrevCells ==
  {PoisonCell, BlankCell} \cup {Cell(g, st) : g \in Glyphs, st \in {4, 5}}

InitRender ==
  /\ COLS \in 1..RenderCols
  /\ ROWS = 1
  /\ PHYS_COLS \in {2 * COLS - 1, 2 * COLS}
  /\ PHYS_ROWS = ROWS
  /\ termCols = PHYS_COLS
  /\ termRows = PHYS_ROWS
  /\ matrix \in [1..COLS -> RenderColumns]
  /\ cur_grid = BuildCurGrid(matrix, COLS, ROWS, Fill(COLS * ROWS, UninitCell))
  /\ prev_grid \in [1..COLS * ROWS -> PrevCells]
  /\ force_full \in BOOLEAN
  /\ resize_pending = FALSE
  /\ exit_pending = FALSE
  /\ prev_live = TRUE
  /\ cur_live = TRUE
  /\ grid_cap_cells = COLS * ROWS
  /\ out_cap = OutNeed(COLS * ROWS)
  /\ pc = "render"
  /\ screen = ClearedScreen
  /\ sgr = 0
  /\ out = [clear |-> FALSE, runs |-> <<>>]
  /\ fails = 0
  /\ ClockStart

NextRender == render_diff

SpecRender == InitRender /\ [][NextRender]_vars

\* ------------------------------------------------------------ one column
\* glyph arrays whose neighbouring rows differ
RowGlyphs(rows) ==
  {[i \in 1..rows |-> ((i + k) % NumGlyphs) + 1] : k \in 0..NumGlyphs - 1}

\* the states a column of one of the given lifespans passes through between
\* two reseeds: cycle grows from 0 by speed until it exceeds rows + lifespan
\* (line 358)
ColumnStates(rows, lifespans) ==
  UNION {[rsi : RowGlyphs(rows), speed : Speeds, lifespan : {l},
          cycle : 0..(rows + l) * Scale, bold : BOOLEAN] :
           l \in lifespans}

\* a column as alloc_matrix leaves it
StartColumn(rows) ==
  [rsi |-> [i \in 1..rows |-> (i % NumGlyphs) + 1], speed |-> 1,
   lifespan |-> MinLen(rows), cycle |-> 0, bold |-> FALSE]

\* a grid of up to SimCols x SimRows whose column 0 is anywhere in its life
\* (column 1 being a fresh column or one at the same point with other glyphs),
\* about to be advanced (one column, a lifespan pick_lifespan_for_column
\* gives) or about to be built (any width, any lifespan up to the height:
\* build_cur_grid as a function of whatever column record it is handed)
InitColumn ==
  /\ ROWS \in 1..SimRows
  /\ COLS \in 1..SimCols
  /\ pc \in {"build", "simulate"}
  /\ pc = "simulate" => COLS = 1
  /\ \E col \in ColumnStates(ROWS, IF pc = "build" THEN 1..ROWS
                                                   ELSE PickLifespan(ROWS)) :
       \E twin \in {StartColumn(ROWS),
                    [col EXCEPT !.rsi = StartColumn(ROWS).rsi]} :
          matrix = [c \in 1..COLS |-> IF c = 1 THEN col
                                      ELSE IF c = 2 THEN twin
                                      ELSE StartColumn(ROWS)]
  /\ PHYS_COLS = 2 * COLS
  /\ PHYS_ROWS = ROWS
  /\ termCols = PHYS_COLS
  /\ termRows = PHYS_ROWS
  /\ cur_grid = IF pc = "build"
                  THEN Fill(COLS * ROWS, UninitCell)
                  ELSE BuildCurGrid(matrix, COLS, ROWS,
                                    Fill(COLS * ROWS, UninitCell))
  /\ prev_grid = IF pc = "build" THEN Fill(COLS * ROWS, PoisonCell)
                                 ELSE cur_grid
  /\ force_full = (pc = "build")
  /\ resize_pending = FALSE
  /\ exit_pending = FALSE
  /\ prev_live = TRUE
  /\ cur_live = TRUE
  /\ grid_cap_cells = COLS * ROWS
  /\ out_cap = OutNeed(COLS * ROWS)
  /\ screen = ClearedScreen
  /\ sgr = 0
  /\ out = [clear |-> FALSE, runs |-> <<>>]
  /\ fails = 0
  /\ ClockStart

NextColumn == build_cur_grid \/ simulate_matrix \/ SimulateReseedFail

SpecColumn == InitColumn /\ [][NextColumn]_vars

\* ------------------------------------------------------------ output size
\* strlen of "\x1b[2J\x1b[H" (line 286)
ClearLen == 7
\* decimal digits of n, as %d prints them
RECURSIVE Digits(_)
Digits(n) == IF n < 10 THEN 1 ELSE 1 + Digits(n \div 10)
\* buf_move_cursor: "\x1b[" row ";" col "H" (line 246)
MoveLen(row1, col1) == 4 + Digits(row1) + Digits(col1)
\* strlen(SGR_MAP[style]) (lines 53-60)
SgrLen(style) ==
  CASE style \in {1, 2, 3} -> 10
    [] style = 4 -> 11
    [] style = 5 -> 12
    [] OTHER -> 0
\* the bytes lines 321-335 put for the cells x..end-1
RECURSIVE CellsLen(_, _, _)
CellsLen(x, end, physCols) ==
  IF x >= end THEN 0
  ELSE 1 + (IF 2 * x + 2 <= physCols THEN 1 ELSE 0) + CellsLen(x + 1, end, physCols)
\* the bytes of one run (lines 315-335)
RunLen(run, physCols) ==
  MoveLen(run.row + 1, 2 * run.start + 1) + SgrLen(run.style)
    + CellsLen(run.start, run.end, physCols)
RECURSIVE RunsLen(_, _)
RunsLen(runs, physCols) ==
  IF runs = <<>> THEN 0
  ELSE RunLen(Head(runs), physCols) + RunsLen(Tail(runs), physCols)
\* len = ptr - outbuf at line 342
OutLen(o, physCols) ==
  (IF o.clear THEN ClearLen ELSE 0) + RunsLen(o.runs, physCols)

\* the program was started in a terminal of one cell, the terminal was grown
\* to 2*COLS x ROWS and in the resize the realloc of outbuf failed (line
\* 167): the new column set and the grown, poisoned grids are installed,
\* out_cap and force_full are as before
InitGrown ==
  /\ COLS \in 1..GrownCols
  /\ ROWS = GrownRows
  /\ PHYS_COLS = 2 * COLS
  /\ PHYS_ROWS = ROWS
  /\ termCols = PHYS_COLS
  /\ termRows = PHYS_ROWS
  /\ matrix = [c \in 1..COLS |-> StartColumn(ROWS)]
  /\ prev_grid = Fill(COLS * ROWS, PoisonCell)
  /\ cur_grid = GrowCur(<<BlankCell>>, COLS * ROWS)
  /\ prev_live = TRUE
  /\ cur_live = TRUE
  /\ grid_cap_cells = COLS * ROWS
  /\ out_cap = OutNeed(1)
  /\ force_full = FALSE
  /\ resize_pending = FALSE
  /\ exit_pending = FALSE
  /\ pc = "build"
  /\ screen = ClearedScreen
  /\ sgr = 0
  /\ out = [clear |-> FALSE, runs |-> <<>>]
  /\ fails = 1
  /\ ClockStart

NextGrown == build_cur_grid \/ render_diff

SpecGrown == InitGrown /\ [][NextGrown]_vars

\* ------------------------------------------------------------ frame scheduler
\* the longest a frame takes, the longest nanosleep oversleeps, the last
\* clock value followed
MaxFrame == 2 * FRAME_NS + 1
MaxOversleep == 1
MaxTime == 5 * FRAME_NS

\* mutant: the boundary always advances by one tick, however late the loop is
RebaseNever(t, boundary) == boundary + FRAME_NS

\* line 411
Rebase(t, boundary) ==
  IF t > boundary + FRAME_NS THEN t + FRAME_NS ELSE boundary + FRAME_NS

\* lines 399-407 as the clock sees them: the frame takes some time, and a
\* pending resize has been handled when it ends (lines 179-195)
Frame ==
  /\ pc = "poll"
  /\ \E d \in 0..MaxFrame :
       /\ now + d <= MaxTime
       /\ now' = now + d
  /\ resize_pending' = FALSE
  /\ pc' = "sleep"
  /\ UNCHANGED <<envVars, physVars, COLS, ROWS, matrix, exit_pending,
                 gridVars, out_cap, force_full, termVars, fails, next,
                 frame_start, overrun>>

\* line 226: the boundary has passed already
SleepNotNeeded ==
  /\ pc = "sleep"
  /\ next <= now
  /\ pc' = "woken"
  /\ UNCHANGED <<envVars, physVars, COLS, ROWS, matrix, resize_pending,
                 exit_pending, gridVars, out_cap, force_full, termVars, fails,
                 clockVars>>

\* lines 227-230: nanosleep runs to its end; the clock read at line 410 is
\* at the boundary or past it
SleepFull ==
  /\ pc = "sleep"
  /\ next > now
  /\ \E late \in 0..MaxOversleep :
       /\ next + late <= MaxTime
       /\ now' = next + late
  /\ pc' = "woken"
  /\ UNCHANGED <<envVars, physVars, COLS, ROWS, matrix, resize_pending,
                 exit_pending, gridVars, out_cap, force_full, termVars, fails,
                 next, frame_start, overrun>>

\* line 230: a signal arrives during nanosleep; its handler (line 127 or
\* 128) sets its flag and nanosleep returns before the boundary
SleepInterrupted ==
  /\ pc = "sleep"
  /\ next > now
  /\ \E t \in now..next - 1 : t <= MaxTime /\ now' = t
  /\ \/ resize_pending' = TRUE /\ UNCHANGED exit_pending
     \/ exit_pending' = TRUE /\ UNCHANGED resize_pending
  /\ pc' = "woken"
  /\ UNCHANGED <<envVars, physVars, COLS, ROWS, matrix, gridVars, out_cap,
                 force_full, termVars, fails, next, frame_start, overrun>>

\* lines 410-411 (followed while the boundary stays within one tick of
\* MaxTime)
NextBoundary ==
  /\ pc = "woken"
  /\ Rebase(now, next) <= MaxTime + FRAME_NS
  /\ next' = Rebase(now, next)
  /\ overrun' = now - next
  /\ frame_start' = now
  /\ pc' = "top"
  /\ UNCHANGED <<envVars, physVars, COLS, ROWS, matrix, resize_pending,
                 exit_pending, gridVars, out_cap, force_full, termVars, fails,
                 now>>

NextClock ==
  \/ ExitCheck
  \/ Frame
  \/ SleepNotNeeded
  \/ SleepFull
  \/ SleepInterrupted
  \/ NextBoundary

\* the loop as the clock sees it, started as main starts it
SpecClock == Init /\ [][NextClock]_vars

\* ============================================================ claims
InGrid(r, c) == r \in 0..ROWS - 1 /\ c \in 0..COLS - 1
CurCell(r, c) == At(cur_grid, COLS, r, c)
\* the screen position of logical cell (r, c)
Shown(r, c) == screen[r + 1][2 * c + 1]
\* render_diff has just returned
Rendered == pc = "simulate"
PrevCommitted == \A i \in 1..COLS * ROWS : prev_grid[i] = cur_grid[i]

\* C1 as stated: after each render_diff of a run of frames and successful
\* resizes (no allocation has failed), every logical cell (r,c) shows the
\* current grid's glyph at row r+1, column 2c+1, written under that cell's
\* style, and prev_grid equals cur_grid cell for cell.
C1_ShowsGridUnderCellStyle ==
  (Rendered /\ fails = 0) =>
     /\ \A r \in 0..ROWS - 1, c \in 0..COLS - 1 :
          Shown(r, c) = ScrCell(CurCell(r, c).ch, CurCell(r, c).style)
     /\ PrevCommitted

\* C1 amended: as C1, the style under which a cell was written being that
\* cell's style for every cell that is not Blank; a Blank cell shows a space
\* written under whichever style was activated last (render_diff emits no
\* style activation for a Blank run).
C1_ShowsGrid ==
  (Rendered /\ fails = 0) =>
     /\ \A r \in 0..ROWS - 1, c \in 0..COLS - 1 :
          /\ Shown(r, c).ch = CurCell(r, c).ch
          /\ CurCell(r, c).style # 0 => Shown(r, c).attr = CurCell(r, c).style
          /\ CurCell(r, c).style = 0 => Shown(r, c).ch = Space
     /\ PrevCommitted

\* the cells a list of runs covers
Covered(runs, r, c) ==
  \E k \in 1..Len(runs) :
     runs[k].row = r /\ runs[k].start <= c /\ c < runs[k].end

\* C1 witness: a partial update on a two-column grid: one styled cell was
\* rewritten, the other cell was skipped
C1_Witness ==
  /\ Rendered /\ fails = 0 /\ ~out.clear /\ COLS = 2
  /\ \E c \in 0..1 : Covered(out.runs, 0, c) /\ CurCell(0, c).style # 0
  /\ \E c \in 0..1 : ~Covered(out.runs, 0, c) /\ CurCell(0, c).style # 0

\* ------------------------------------------------------------ C2
\* the skip condition as the specification words it
Skippable(cur, prv) ==
  cur.style = prv.style /\ (cur.style = 0 \/ cur.ch = prv.ch)
PrevCell(r, c) == At(prev_grid, COLS, r, c)
RenderStep == pc = "render" /\ pc' = "simulate"

\* C2: when render_diff runs without the full-repaint flag, a cell is in an
\* emitted run if and only if it is not skippable (same style as before, and
\* Blank or same glyph as before).
C2_WritesExactlyChanged ==
  [][(RenderStep /\ ~force_full) =>
       \A r \in 0..ROWS - 1, c \in 0..COLS - 1 :
          Covered(out'.runs, r, c) <=> ~Skippable(CurCell(r, c), PrevCell(r, c))]_vars

\* C2 witness: a diff render of three columns that wrote some cells and
\* skipped a styled cell whose glyph and style were unchanged
C2_Witness ==
  /\ Rendered /\ ~out.clear /\ COLS = 3
  /\ \E c \in 0..2 : Covered(out.runs, 0, c)
  /\ \E c \in 0..2 : ~Covered(out.runs, 0, c) /\ CurCell(0, c).style # 0

\* ------------------------------------------------------------ C9
NeedsUpdate(ff, cur, prv) == ff \/ ~Skippable(cur, prv)

\* C9: every emitted run is maximal: it starts at a cell needing an update,
\* holds only cells that need an update and have the run's style, stops at
\* the row's end or at a cell that needs no update or has another style, and
\* no run continues the run before it (adjacent, same row, same style).
C9_RunsMaximal ==
  [][RenderStep =>
       LET runs == out'.runs
       IN  \A k \in 1..Len(runs) :
              LET run == runs[k]
              IN  /\ 0 <= run.start /\ run.start < run.end /\ run.end <= COLS
                  /\ \A x \in run.start..run.end - 1 :
                        /\ NeedsUpdate(force_full, CurCell(run.row, x), PrevCell(run.row, x))
                        /\ CurCell(run.row, x).style = run.style
                  /\ run.end < COLS =>
                        \/ ~NeedsUpdate(force_full, CurCell(run.row, run.end),
                                        PrevCell(run.row, run.end))
                        \/ CurCell(run.row, run.end).style # run.style
                  /\ k > 1 =>
                        \/ runs[k - 1].row < run.row
                        \/ /\ runs[k - 1].row = run.row
                           /\ runs[k - 1].end <= run.start
                           /\ runs[k - 1].end = run.start =>
                                runs[k - 1].style # run.style]_vars

\* C9 witness: a diff render emitted one run over two adjacent styled cells
\* of the same style and different glyphs
C9_Witness ==
  /\ Rendered /\ ~out.clear
  /\ \E k \in 1..Len(out.runs) :
        /\ out.runs[k].end >= out.runs[k].start + 2
        /\ out.runs[k].style # 0
        /\ CurCell(0, out.runs[k].start).ch # CurCell(0, out.runs[k].start + 1).ch

\* ------------------------------------------------------------ C8
\* C8: a second render_diff on the grid built from the same simulation state
\* (no simulate_matrix, no resize, flag off) emits no run and no byte.
C8_SecondRenderEmitsNothing ==
  [][(pc = "simulate" /\ pc' = "simulate" /\ ~force_full) =>
       (out'.runs = <<>> /\ ~out'.clear)]_vars

\* C8 witness: nothing was emitted for a grid that shows two styled cells
C8_Witness ==
  /\ Rendered /\ out.runs = <<>> /\ ~out.clear /\ COLS = 2
  /\ \A c \in 0..1 : CurCell(0, c).style # 0

\* ------------------------------------------------------------ C3
\* apply_resize_if_needed returns (the step that leaves line 192/196)
ResizeReturns == pc = "commit" /\ pc' \notin {"commit", "crashed"}

\* C3: if an allocation fails during a pending resize, COLS, ROWS, the
\* column set and both grid buffers are as before the attempt when
\* apply_resize_if_needed returns.
C3_FailedResizeKeepsState ==
  [][(ResizeReturns /\ fails' > fails) =>
       /\ COLS' = COLS /\ ROWS' = ROWS /\ matrix' = matrix
       /\ prev_grid' = prev_grid /\ cur_grid' = cur_grid
       /\ prev_live' = prev_live /\ cur_live' = cur_live
       /\ grid_cap_cells' = grid_cap_cells]_vars

\* ------------------------------------------------------------ C4
\* C4: whenever build_cur_grid, render_diff or simulate_matrix is about to
\* run, the column set has COLS columns each with a live glyph array of ROWS
\* entries, and both grids are live buffers of at least COLS x ROWS cells.
C4_BuffersLiveAndSized ==
  pc \in {"build", "render", "simulate"} =>
     /\ Len(matrix) = COLS
     /\ \A c \in 1..COLS : Len(matrix[c].rsi) = ROWS
     /\ cur_live /\ prev_live
     /\ grid_cap_cells >= COLS * ROWS

\* ------------------------------------------------------------ C5
\* C5 as stated: while the terminal reports 0 rows, a pending resize stays
\* pending and no frame is rendered.
C5_ZeroRowsStaysPending ==
  [][termRows = 0 =>
       /\ ~RenderStep
       /\ (resize_pending /\ pc \in {"check", "query", "commit"}) => resize_pending']_vars

\* ------------------------------------------------------------ C6
\* C6: when a resize is pending and the size query reports a zero, the
\* attempt is aborted: COLS, ROWS, the column set and the grids stay.
C6_ZeroSizeAborts ==
  [][(pc = "commit" /\ ~TtyWinsizeOk) =>
       /\ COLS' = COLS /\ ROWS' = ROWS /\ matrix' = matrix
       /\ prev_grid' = prev_grid /\ cur_grid' = cur_grid
       /\ grid_cap_cells' = grid_cap_cells]_vars

\* ------------------------------------------------------------ C7
\* every cell of the grid is in a run
AllCovered(runs, cols, rows) ==
  \A r \in 0..rows - 1, c \in 0..cols - 1 : Covered(runs, r, c)
\* the cells render_diff will compare are all poisoned
PrevPoisoned ==
  /\ prev_live /\ Len(prev_grid) >= COLS * ROWS
  /\ \A i \in 1..COLS * ROWS : prev_grid[i] = PoisonCell
\* apply_resize_if_needed returns 1: valid size, no allocation failed
ResizeSucceeds == ResizeReturns /\ ~InvalidSize /\ fails' = fails

\* C7: the full-repaint flag is set at the first frame and by every
\* successful resize and stays set until the next render; a reallocation of
\* the grids leaves prev_grid poisoned until the next render; a render with
\* the flag set or with a poisoned prev_grid emits every one of the
\* COLS x ROWS cells; each render clears the flag and nothing but a
\* successful resize sets it again.
C7_FullRepaint ==
  /\ force_full = TRUE
  /\ [][/\ ResizeSucceeds => force_full'
        /\ grid_cap_cells' > grid_cap_cells =>
             (grid_cap_cells' = COLS' * ROWS' /\ PrevPoisoned')
        /\ (force_full /\ ~RenderStep) => force_full'
        /\ (PrevPoisoned /\ pc \in {"build", "render"} /\ ~RenderStep) => PrevPoisoned'
        /\ (RenderStep /\ (force_full \/ PrevPoisoned)) =>
             AllCovered(out'.runs, COLS, ROWS)
        /\ RenderStep => (~force_full' /\ out'.clear = force_full)
        /\ (~force_full /\ force_full') => ResizeSucceeds]_vars

\* C7 witness: the grids were reallocated but the output buffer was not (its
\* realloc failed, so the flag was not set); the render that followed
\* emitted both cells of the grid without the clear
C7_Witness ==
  /\ Rendered /\ ~out.clear /\ COLS = 2
  /\ out_cap < OutNeed(COLS * ROWS) /\ grid_cap_cells = COLS * ROWS
  /\ AllCovered(out.runs, COLS, ROWS)

\* ------------------------------------------------------------ C10
\* the terminal has a valid size of logical dimensions lg
TermAt(lg) ==
  TtyWinsizeOk /\ Logical(termCols) = lg[1] /\ termRows = lg[2]
\* the terminal has logical dimensions lg and the active grid others
Behind(lg) == TermAt(lg) /\ (COLS # lg[1] \/ ROWS # lg[2])
\* the grid has the dimensions lg and was repainted in full
CaughtUp(lg) ==
  /\ COLS = lg[1] /\ ROWS = lg[2]
  /\ Rendered /\ out.clear /\ AllCovered(out.runs, COLS, ROWS)
ValidSizes == (1..MaxPhysCols) \X (1..MaxPhysRows)
LogicalSizes == {<<Logical(sz[1]), sz[2]>> : sz \in ValidSizes}

\* C10: if the terminal has a valid size whose logical dimensions differ
\* from the active ones, then, allocations succeeding, either the terminal
\* leaves these logical dimensions again or the grid gets
\* ceil(columns/2) x rows and a full repaint is rendered, with or without
\* SIGWINCH.
C10_PollCatchesUp ==
  \A lg \in LogicalSizes : Behind(lg) ~> (CaughtUp(lg) \/ ~TermAt(lg))

\* C10 witness: the grid caught up with the terminal in a frame after the
\* first (the repaint began under an attribute left by an earlier frame)
C10_Witness ==
  /\ CaughtUp(<<Logical(termCols), termRows>>) /\ TtyWinsizeOk /\ COLS = 2
  /\ PHYS_COLS = termCols /\ ~resize_pending
  /\ screen[1][1].ch = Space /\ screen[1][1].attr # 0

\* ------------------------------------------------------------ C11
\* a step that leaves the main loop where it is and is not a change of the
\* terminal: the delivery of a signal
SignalStep ==
  /\ pc' = pc /\ termCols' = termCols /\ termRows' = termRows
  /\ (resize_pending' # resize_pending \/ exit_pending' # exit_pending)
\* the dimensions, the column array and the grid allocations
Geometry == <<COLS, ROWS, Len(matrix), prev_live, cur_live, grid_cap_cells>>

\* C11: a resize or exit notification delivered at any point of the loop
\* changes its pending flag and nothing else; COLS, ROWS, the column array
\* and the grid allocations change only in apply_resize_if_needed at the top
\* of the loop body (or at shutdown), so they are the same from
\* build_cur_grid to the end of simulate_matrix.
C11_SignalsOnlySetFlags ==
  [][/\ SignalStep =>
          UNCHANGED <<physVars, COLS, ROWS, matrix, gridVars, out_cap,
                      force_full, termVars, fails>>
     /\ (resize_pending' /\ ~resize_pending /\ pc' = pc) =>
          exit_pending' = exit_pending
     /\ (exit_pending' # exit_pending) =>
          (exit_pending' /\ resize_pending' = resize_pending)
     /\ Geometry' # Geometry => (pc = "commit" \/ pc' = "done")
     /\ pc \in {"build", "render", "simulate"} => Geometry' = Geometry]_vars

\* C11 witness: a SIGWINCH arrived between build_cur_grid and render_diff
\* and the frame was rendered with the flag still pending
C11_Witness ==
  /\ Rendered /\ resize_pending /\ out.runs # <<>>
  /\ Len(matrix) = COLS /\ prev_live /\ cur_live

\* ------------------------------------------------------------ C12
\* the loop is left at line 396 and cleanup() runs
ShutdownStep == pc = "top" /\ pc' = "done"

\* C12: once exit_pending is set the loop leaves at its next check, and
\* cleanup then releases the column set, both grids and the output buffer,
\* each exactly once: every block it frees is live when it is freed.
C12_ShutdownReleasesOnce ==
  [][/\ (pc = "top" /\ exit_pending /\ pc' # pc) => pc' = "done"
     /\ ShutdownStep =>
          /\ exit_pending
          /\ prev_live /\ cur_live
          /\ ~prev_live' /\ ~cur_live'
          /\ \A c \in 1..COLS : c <= Len(matrix)]_vars

\* ------------------------------------------------------------ C13
\* simulate_matrix runs
SimulateStep == pc = "simulate" /\ pc' = "sleep"
\* the reseed condition as line 358 evaluates it, after line 357
ReseedCondition(col) ==
  col.cycle + col.speed > (ROWS + col.lifespan) * Scale
\* C13: once cycle > ROWS + lifespan, the simulate_matrix call resets the
\* column's cycle to 0 and gives it a lifespan within
\* [max(1, round(0.30 * ROWS)), round(0.90 * ROWS)].
C13_ReseedInRoundedRange ==
  [][LET round(p, rows) == (p * rows + 50) \div 100   \* halves upwards
     IN  \A c \in 1..COLS :
           (SimulateStep /\ ReseedCondition(matrix[c])) =>
              /\ matrix'[c].cycle = 0
              /\ matrix'[c].lifespan >= Max(1, round(30, ROWS))
              /\ matrix'[c].lifespan <= round(90, ROWS)]_vars

\* ------------------------------------------------------------ C14
\* build_cur_grid has just returned
Built == pc = "render"
\* the style build_cur_grid stored for (r, c)
BuiltStyle(r, c) == cur_grid[r * COLS + c + 1].style
\* a 4x2 grid whose column 0 has cycle = 1.5 and lifespan = 2
Grid4x2 ==
  /\ Built /\ COLS = 4 /\ ROWS = 2
  /\ 2 * matrix[1].cycle = 3 * Scale /\ matrix[1].lifespan = 2

\* C14 as stated: in the 4x2 grid, row 0 of column 0 is Head (5) and row 1
\* is Near-Head (4) or Blank (0).
C14_HeadAtRow0 ==
  Grid4x2 => (BuiltStyle(0, 0) = 5 /\ BuiltStyle(1, 0) \in {4, 0})

\* C14 amended: in the 4x2 grid, row 1 of column 0, the row holding the head
\* position 1.5, is Head (5) and row 0, the row above it, is Near-Head (4).
C14_HeadAtRow1 ==
  Grid4x2 => (BuiltStyle(1, 0) = 5 /\ BuiltStyle(0, 0) = 4)

\* C14 witness: the 4x2 grid was built
C14_Witness == Grid4x2 /\ cur_grid[1].ch \in Glyphs /\ cur_grid[5].ch \in Glyphs

\* ------------------------------------------------------------ C15
\* build_cur_grid runs
BuildStep == pc = "build" /\ pc' = "render"
\* what the style of a cell may depend on
StyleInputs(col) == <<col.cycle, col.lifespan, col.bold>>

\* C15: for every grid of w x h cells and every state of the columns,
\* build_cur_grid writes exactly the w*h cells of cur_grid; each gets one
\* style of 0..5, the same for two columns that agree on cycle, lifespan and
\* bold; a Blank cell holds a space, a styled cell the column's glyph of its
\* row.
C15_BuildWritesEveryCell ==
  [][BuildStep =>
       /\ Len(cur_grid') = COLS * ROWS
       /\ \A r \in 0..ROWS - 1, c \in 0..COLS - 1 :
            LET cell == cur_grid'[r * COLS + c + 1]
            IN  /\ cell # UninitCell
                /\ cell.style \in 0..5
                /\ cell.style = 0 => cell.ch = Space
                /\ cell.style # 0 => cell.ch = matrix[c + 1].rsi[r + 1]
                /\ \A d \in 0..COLS - 1 :
                     StyleInputs(matrix[d + 1]) = StyleInputs(matrix[c + 1]) =>
                       cur_grid'[r * COLS + d + 1].style = cell.style]_vars

\* C15 witness: a grid was built in which columns 0 and 1 agree on cycle,
\* lifespan and bold and differ in their glyphs, with lit and blank cells
C15_Witness ==
  /\ Built /\ COLS >= 2 /\ ROWS >= 3
  /\ StyleInputs(matrix[1]) = StyleInputs(matrix[2])
  /\ matrix[1].rsi # matrix[2].rsi
  /\ \E r \in 0..ROWS - 1 : BuiltStyle(r, 0) = 0
  /\ \E r \in 0..ROWS - 1 :
       BuiltStyle(r, 0) \in 1..3 /\ cur_grid[r * COLS + 1] # cur_grid[r * COLS + 2]

\* ------------------------------------------------------------ C16
\* every cell build_cur_grid gives the column at head position cyc is Blank
ColumnDark(col, cyc) ==
  \A r \in 0..ROWS - 1 : StyleOf(r, [col EXCEPT !.cycle = cyc]) = 0
\* simulate_matrix reseeded column c (or tried to and found no memory)
Reseeded(c) ==
  SimulateStep /\ (matrix'[c].cycle = 0 \/ matrix'[c].rsi = <<>>)

C17_OutputFitsBuffer == Rendered => OutLen(out, PHYS_COLS) <= out_cap

\* the logical columns of the cells the last render_diff emitted
EmittedColumns ==
  UNION {out.runs[k].start..out.runs[k].end - 1 : k \in 1..Len(out.runs)}

\* C18: after every render_diff, also one that follows a failed resize
\* attempt, COLS = ceil(PHYS_COLS / 2) and every emitted cell x has its glyph
\* at a physical column 2x+1 <= PHYS_COLS, so that no character lands beyond
\* the last physical column.
C18_NothingBeyondLastColumn ==
  Rendered =>
     /\ COLS = Logical(PHYS_COLS)
     /\ \A x \in EmittedColumns : 2 * x + 1 <= PHYS_COLS

\* line 411 has just been executed
BoundaryStep == pc = "woken" /\ pc' = "top"
\* sleep_until(next) is being called
SleepCalled == pc = "sleep"

\* C19 as stated: at the end of every iteration the boundary becomes now +
\* one tick when the old one was overrun by more than a tick and old + one
\* tick otherwise, and after an overrun at most one frame is rendered without
\* a sleep: when the iteration before ended in an overrun and this frame took
\* less than a tick, the boundary sleep_until is called with is not in the
\* past.
C19_NoSecondFrameWithoutSleep ==
  /\ [][BoundaryStep =>
          next' = (IF now > next + FRAME_NS THEN now + FRAME_NS
                                            ELSE next + FRAME_NS)]_vars
  /\ [](SleepCalled /\ overrun > 0 /\ now - frame_start < FRAME_NS
           => next >= now)

\* C19 amended: the boundary becomes now + one tick when the old one was
\* overrun by more than a tick and old + one tick otherwise; the new boundary
\* is therefore never in the past when it is set, and lies less than one tick
\* ahead exactly when the old one was overrun by at most a tick (that backlog
\* is then worked off by frames rendered without sleeping).
C19_BoundaryNeverInPast ==
  [][BoundaryStep =>
       /\ now > next + FRAME_NS => next' = now + FRAME_NS
       /\ now <= next + FRAME_NS => next' = next + FRAME_NS
       /\ next' >= now
       /\ (next' - now < FRAME_NS) <=> (now > next /\ now <= next + FRAME_NS)]_vars

\* an overrun of more than a tick has just been rebased
C19_Witness ==
  pc = "top" /\ overrun > FRAME_NS /\ next = now + FRAME_NS

\* C20: at every call of sleep_until(next) the boundary is at most one tick
\* period ahead, also when an earlier sleep was cut short by a signal.
C20_SleepAtMostOneTick == SleepCalled => next - now <= FRAME_NS

====
